---- MODULE Spec2Model ----
(***************************************************************************)
(* A model of bcdoc/clidocs.py: the ReSTDocument fragment buffer, the      *)
(* registration of document event handlers, the argument-group handling of *)
(* OperationDocumentEventHandler and the JSON example synthesizer.         *)
(***************************************************************************)
EXTENDS Integers, Sequences, FiniteSets, TLC

VARIABLES
    writes,         \* ReSTDocument._writes: the fragments, in write order
    keep_data,      \* ReSTDocument.keep_data
    err,            \* the exception the last operation raised, or "none"
    ret,            \* the value the last operation returned, or None
    lastOp,         \* name of the last operation or event
    lastArg,        \* its argument
    prev,           \* writes as it was before the last operation
    wlog,           \* fragments passed to write() since construction
    plog,           \* values returned by pop_write() since construction
    clean,          \* the history so far is write()* pop_write()* in keep mode
    raised,         \* the parser raised inside the last include_doc_string
    afterFail,      \* the operation before the last one was such a failure
    arg_table,      \* help_command.arg_table: name -> argument
    arg_groups,     \* OperationDocumentEventHandler._arg_groups
    documented,     \* OperationDocumentEventHandler._documented_arg_groups
    out,            \* the fragments the last event appended to the document
    pass,           \* the rendering pass the event stream is in
    fired,          \* arguments whose per-argument event fired in this pass
    lines,          \* group -> lines (entries) written for it in this pass
    example_arg,    \* the argument doc_option_example documents
    todo,           \* the statements doc_option_example has still to run
    indents,        \* calls of doc.style.indent() so far
    dedents,        \* calls of doc.style.dedent() so far
    handler_class,  \* the class of the handler object
    event_class,    \* help_command.event_class
    subscriptions,  \* the session's subscriptions, in registration order
    regCalls,       \* event class -> register() calls since the last unregister
    invoked         \* handler method calls made by the last fired event

docVars == <<writes, keep_data, err, ret, lastOp, lastArg, prev, wlog, plog,
             clean, raised, afterFail>>

opVars == <<arg_table, arg_groups, documented, out, pass, fired, lines>>

jsonVars == <<example_arg, todo, indents, dedents>>

regVars == <<handler_class, event_class, subscriptions, regCalls, invoked>>

vars == <<docVars, opVars, jsonVars, regVars>>

None == "None"

(***************************************************************************)
(* Bounds of the model.                                                    *)
(***************************************************************************)
MaxWrites == 3      \* longest fragment buffer explored
MaxDoc == 2         \* most data chunks in one docstring

Frags == {"a", "b"}

(***************************************************************************)
(* ReSTDocument                                                            *)
(***************************************************************************)
Last(s) == s[Len(s)]
Front(s) == SubSeq(s, 1, Len(s) - 1)

Reverse(s) == [i \in 1..Len(s) |-> s[Len(s) + 1 - i]]

IsPrefix(s, t) == Len(s) <= Len(t) /\ SubSeq(t, 1, Len(s)) = s

\* _write: append only in keep mode.
DocWrite(w, keep, s) == IF keep THEN Append(w, s) ELSE w

\* list.pop() / list[-1]: IndexError on an empty list.
PopFirst(w) ==
    IF w = <<>> THEN [writes |-> w, ret |-> None, err |-> "IndexError"]
    ELSE [writes |-> SubSeq(w, 2, Len(w)), ret |-> w[1], err |-> "none"]
PopWrite(w) ==
    IF w = <<>> THEN [writes |-> w, ret |-> None, err |-> "IndexError"]
    ELSE [writes |-> Front(w), ret |-> Last(w), err |-> "none"]
PeekWrite(w) ==
    IF w = <<>> THEN [writes |-> w, ret |-> None, err |-> "IndexError"]
    ELSE [writes |-> w, ret |-> Last(w), err |-> "none"]

\* handle_data: the parser's callback for text.
HandleData(w, keep, data) ==
    IF data # "" /\ keep THEN DocWrite(w, keep, data) ELSE w

(***************************************************************************)
(* Docstrings and the DocString Parser.  A docstring is the sequence of    *)
(* text chunks the parser hands to handle_data, and the number of chunks   *)
(* after which the parser raises (NoFail when it is well formed).          *)
(***************************************************************************)
NoFail == 0 - 1

SeqsUpTo(S, n) == UNION {[1..k -> S] : k \in 0..n}

DocStrings ==
    {[data |-> d, failAt |-> f] :
        d \in SeqsUpTo(Frags, MaxDoc), f \in {NoFail} \cup (0..MaxDoc)}

WellFormedDocStrings == {ds \in DocStrings : ds.failAt \in {NoFail} \cup (0..Len(ds.data))}

Falsy(ds) == ds.data = <<>> /\ ds.failAt = NoFail

RECURSIVE FeedChunks(_, _, _)
FeedChunks(w, keep, data) ==
    IF data = <<>> THEN w
    ELSE FeedChunks(HandleData(w, keep, Head(data)), keep, Tail(data))

\* parser.feed(doc_string)
ParserFeed(w, keep, ds) ==
    IF ds.failAt = NoFail
    THEN [writes |-> FeedChunks(w, keep, ds.data), raised |-> FALSE]
    ELSE [writes |-> FeedChunks(w, keep, SubSeq(ds.data, 1, ds.failAt)),
          raised |-> TRUE]

\* include_doc_string without the try/except.
IncludeDocStringNoCatch(w, keep, ds) ==
    IF Falsy(ds) THEN [writes |-> w, raised |-> FALSE, err |-> "none"]
    ELSE LET r == ParserFeed(w, keep, ds)
         IN  [writes |-> r.writes, raised |-> r.raised,
              err |-> IF r.raised THEN "ParseError" ELSE "none"]
\* include_doc_string: parser errors are logged and swallowed.
IncludeDocString(w, keep, ds) ==
    IF Falsy(ds) THEN [writes |-> w, raised |-> FALSE, err |-> "none"]
    ELSE LET r == ParserFeed(w, keep, ds)
         IN  [writes |-> r.writes, raised |-> r.raised, err |-> "none"]

OpIdle ==
    /\ arg_table = <<>>
    /\ arg_groups = <<>>
    /\ documented = <<>>
    /\ out = <<>>
    /\ pass = "none"
    /\ fired = {}
    /\ lines = <<>>

JsonIdle ==
    /\ example_arg = None
    /\ todo = <<>>
    /\ indents = 0
    /\ dedents = 0

RegIdle ==
    /\ handler_class = None
    /\ event_class = None
    /\ subscriptions = <<>>
    /\ regCalls = <<>>
    /\ invoked = 0

DocInit ==
    /\ OpIdle
    /\ JsonIdle
    /\ RegIdle
    /\ writes = <<>>
    /\ keep_data = TRUE
    /\ err = "none"
    /\ ret = None
    /\ lastOp = "init"
    /\ lastArg = None
    /\ prev = <<>>
    /\ wlog = <<>>
    /\ plog = <<>>
    /\ clean = TRUE
    /\ raised = FALSE
    /\ afterFail = FALSE

Note(op, arg) ==
    /\ lastOp' = op
    /\ lastArg' = arg
    /\ prev' = writes
    /\ afterFail' = (lastOp = "include_doc_string" /\ raised)

\* The history is no longer write()* pop_write()*: stop recording it.
Dirty ==
    /\ clean' = FALSE
    /\ wlog' = <<>>
    /\ plog' = <<>>

write(content) ==
    /\ Len(writes) < MaxWrites
    /\ writes' = DocWrite(writes, keep_data, content)
    /\ err' = "none"
    /\ ret' = None
    /\ Note("write", content)
    /\ clean' = (clean /\ keep_data /\ plog = <<>>)
    /\ wlog' = IF clean' THEN Append(wlog, content) ELSE <<>>
    /\ plog' = IF clean' THEN plog ELSE <<>>
    /\ raised' = FALSE
    /\ UNCHANGED <<keep_data, opVars, jsonVars, regVars>>

pop_write ==
    /\ LET r == PopWrite(writes)
       IN  /\ writes' = r.writes
           /\ ret' = r.ret
           /\ err' = r.err
           /\ plog' = IF clean /\ r.err = "none" THEN Append(plog, r.ret) ELSE plog
    /\ Note("pop_write", None)
    /\ raised' = FALSE
    /\ UNCHANGED <<keep_data, wlog, clean, opVars, jsonVars, regVars>>

peek_write ==
    /\ LET r == PeekWrite(writes)
       IN  /\ writes' = r.writes
           /\ ret' = r.ret
           /\ err' = r.err
    /\ Note("peek_write", None)
    /\ raised' = FALSE
    /\ UNCHANGED <<keep_data, wlog, plog, clean, opVars, jsonVars, regVars>>

push_write(s) ==
    /\ Len(writes) < MaxWrites
    /\ writes' = Append(writes, s)
    /\ err' = "none"
    /\ ret' = None
    /\ Note("push_write", s)
    /\ Dirty
    /\ raised' = FALSE
    /\ UNCHANGED <<keep_data, opVars, jsonVars, regVars>>

\* The keep/discard mode is a public attribute its collaborators toggle.
set_keep_data(b) ==
    /\ keep_data # b
    /\ keep_data' = b
    /\ err' = "none"
    /\ ret' = None
    /\ Note("set_keep_data", None)
    /\ Dirty
    /\ raised' = FALSE
    /\ UNCHANGED <<writes, opVars, jsonVars, regVars>>

include_doc_string(ds) ==
    /\ Len(writes) + Len(ds.data) <= MaxWrites
    /\ LET r == IncludeDocString(writes, keep_data, ds)
       IN  /\ writes' = r.writes
           /\ err' = r.err
           /\ raised' = r.raised
    /\ ret' = None
    /\ Note("include_doc_string", ds)
    /\ Dirty
    /\ UNCHANGED <<keep_data, opVars, jsonVars, regVars>>

DocNext ==
    \/ \E c \in Frags : write(c)
    \/ pop_write
    \/ peek_write
    \/ \E s \in Frags : push_write(s)
    \/ \E b \in BOOLEAN : set_keep_data(b)
    \/ \E ds \in WellFormedDocStrings : include_doc_string(ds)

SpecDoc == DocInit /\ [][DocNext]_vars

(***************************************************************************)
(* OperationDocumentEventHandler: synopsis and option events.              *)
(***************************************************************************)
Args == {"a", "b", "c"}

\* Iteration order of the argument table (an ordered dictionary).
ArgOrder == <<"a", "b", "c">>

GroupNames == {"g"}

SCALARS == {"string", "integer", "long", "boolean", "timestamp",
            "float", "double", "blob"}

\* The docstring of each argument: well formed, malformed, empty.
Documentation(name) ==
    CASE name = "a" -> [data |-> <<"a">>, failAt |-> NoFail]
      [] name = "b" -> [data |-> <<"a", "b">>, failAt |-> 1]
      [] OTHER -> [data |-> <<>>, failAt |-> NoFail]

Arguments(name) ==
    {[cli_name |-> "--" \o name, group_name |-> g, required |-> r,
      cli_type_name |-> t, documentation |-> Documentation(name)] :
        g \in GroupNames \cup {None}, r \in BOOLEAN, t \in {"boolean", "string"}}

ArgTables ==
    UNION {{t \in [names -> UNION {Arguments(n) : n \in names}] :
                \A n \in names : t[n] \in Arguments(n)} : names \in SUBSET Args}

\* The names of the table in iteration order.
TableOrder(tbl) == SelectSeq(ArgOrder, LAMBDA n : n \in DOMAIN tbl)

\* _build_arg_table_groups: group name -> its arguments, in table order.
BuildArgTableGroups(tbl) ==
    LET groups == {tbl[n].group_name : n \in DOMAIN tbl} \ {None}
    IN  [g \in groups |->
            SelectSeq(TableOrder(tbl), LAMBDA n : tbl[n].group_name = g)]

RECURSIVE Join(_, _)
Join(sep, strs) ==
    IF strs = <<>> THEN ""
    ELSE IF Len(strs) = 1 THEN strs[1]
    ELSE strs[1] \o sep \o Join(sep, Tail(strs))

\* [a.cli_name for a in group]
CliNames(tbl, names) == [i \in 1..Len(names) |-> tbl[names[i]].cli_name]

InSeq(x, s) == \E i \in 1..Len(s) : s[i] = x

\* writeln: indentation, content, newline.  The events below write at the
\* left margin.
Writeln(content) == content \o "\n"

Unbound == "<unbound>"

\* doc_synopsis_option without the early return for a documented group.
SynopsisOptionStrNoSkip(tbl, groups, done, arg) ==
    LET argument == tbl[arg]
    IN  IF argument.group_name \in DOMAIN groups
        THEN [returned |-> FALSE,
              str |-> Join(" | ", CliNames(tbl, groups[argument.group_name])),
              documented |-> Append(done, argument.group_name)]
        ELSE IF argument.cli_type_name # "boolean"
        THEN [returned |-> FALSE, str |-> argument.cli_name \o " <value>",
              documented |-> done]
        ELSE [returned |-> FALSE, str |-> Unbound, documented |-> done]
\* doc_synopsis_option up to its last two statements: the option string
\* (Unbound when no branch assigns it) and the documented groups.
SynopsisOptionStr(tbl, groups, done, arg) ==
    LET argument == tbl[arg]
    IN  IF argument.group_name \in DOMAIN groups
        THEN IF InSeq(argument.group_name, done)
             THEN [returned |-> TRUE, str |-> Unbound, documented |-> done]
             ELSE [returned |-> FALSE,
                   str |-> Join(" | ",
                               CliNames(tbl, groups[argument.group_name])),
                   documented |-> Append(done, argument.group_name)]
        ELSE IF argument.cli_type_name # "boolean"
        THEN [returned |-> FALSE, str |-> argument.cli_name \o " <value>",
              documented |-> done]
        ELSE [returned |-> FALSE, str |-> Unbound, documented |-> done]

\* doc_synopsis_option: what it writes, the documented groups it leaves and
\* the exception it raises.
SynopsisOption(tbl, groups, done, arg) ==
    LET r == SynopsisOptionStr(tbl, groups, done, arg)
    IN  IF r.returned
        THEN [out |-> <<>>, documented |-> r.documented, err |-> "none"]
        ELSE IF r.str = Unbound
        THEN [out |-> <<>>, documented |-> r.documented,
              err |-> "UnboundLocalError"]
        ELSE [out |-> <<Writeln(IF ~tbl[arg].required
                                THEN "[" \o r.str \o "]" ELSE r.str)>>,
              documented |-> r.documented, err |-> "none"]

\* The inline-literal markup around a name.  The strings of the language
\* cannot hold a backquote: each backquote pair of the markup is written ''.
Literal(name) == "''" \o name \o "''"

\* doc_option
DocOption(tbl, groups, done, arg) ==
    LET argument == tbl[arg]
        names == IF argument.group_name \in DOMAIN groups
                 THEN CliNames(tbl, groups[argument.group_name]) ELSE <<>>
        entry(name) ==
            IncludeDocString(
                <<name \o " (" \o argument.cli_type_name \o ")\n">>,
                TRUE, argument.documentation).writes
    IN  IF argument.group_name \in DOMAIN groups
        THEN IF InSeq(argument.group_name, done)
             THEN [out |-> <<>>, documented |-> done, err |-> "none"]
             ELSE [out |-> entry(Join(" | ",
                              [i \in 1..Len(names) |-> Literal(names[i])])),
                   documented |-> Append(done, argument.group_name),
                   err |-> "none"]
        ELSE [out |-> entry(Literal(argument.cli_name)),
              documented |-> done, err |-> "none"]

\* The untouched document state of a handler run: the handler writes through
\* the document in keep mode, and out records what each event appended.
DocIdle ==
    /\ writes = <<>>
    /\ keep_data = TRUE
    /\ ret = None
    /\ prev = <<>>
    /\ wlog = <<>>
    /\ plog = <<>>
    /\ clean = TRUE
    /\ raised = FALSE
    /\ afterFail = FALSE

docIdleVars == <<writes, keep_data, ret, prev, wlog, plog, clean, raised,
                 afterFail>>

\* OperationDocumentEventHandler.__init__
OpInit ==
    /\ DocIdle
    /\ JsonIdle
    /\ RegIdle
    /\ err = "none"
    /\ lastOp = "init"
    /\ lastArg = None
    /\ arg_table \in ArgTables
    /\ arg_groups = BuildArgTableGroups(arg_table)
    /\ documented = <<>>
    /\ out = <<>>
    /\ pass = "none"
    /\ fired = {}
    /\ lines = [g \in DOMAIN arg_groups |-> 0]

Event(name, arg) ==
    /\ lastOp' = name
    /\ lastArg' = arg
    /\ UNCHANGED <<docIdleVars, arg_table, arg_groups, jsonVars, regVars>>

\* One more line for the group of arg, when the event wrote one for it.
Counted(count, arg, wrote, inPass) ==
    LET g == arg_table[arg].group_name
    IN  IF g \in DOMAIN arg_groups /\ wrote /\ inPass
        THEN [count EXCEPT ![g] = @ + 1]
        ELSE count

doc_synopsis_start ==
    /\ documented' = <<>>
    /\ out' = <<Writeln("op")>>
    /\ err' = "none"
    /\ pass' = "synopsis"
    /\ fired' = {}
    /\ lines' = [g \in DOMAIN arg_groups |-> 0]
    /\ Event("doc_synopsis_start", None)

doc_synopsis_option(arg) ==
    /\ arg \in DOMAIN arg_table
    /\ LET r == SynopsisOption(arg_table, arg_groups, documented, arg)
       IN  /\ documented' = r.documented
           /\ out' = r.out
           /\ err' = r.err
           /\ lines' = Counted(lines, arg, r.out # <<>>, pass = "synopsis")
    /\ fired' = fired \cup {arg}
    /\ Event("doc_synopsis_option", arg)
    /\ UNCHANGED pass

\* doc_synopsis_end without the reset of the documented groups.
doc_synopsis_end_keep ==
    /\ out' = <<>>
    /\ err' = "none"
    /\ pass' = "synopsis_done"
    /\ Event("doc_synopsis_end", None)
    /\ UNCHANGED <<documented, fired, lines>>
doc_synopsis_end ==
    /\ documented' = <<>>
    /\ out' = <<>>
    /\ err' = "none"
    /\ pass' = "synopsis_done"
    /\ Event("doc_synopsis_end", None)
    /\ UNCHANGED <<fired, lines>>

\* doc_options_start: the operation's params are the arguments of the table.
doc_options_start ==
    /\ out' = IF DOMAIN arg_table = {} THEN <<"*None*\n">> ELSE <<>>
    /\ err' = "none"
    /\ pass' = "options"
    /\ fired' = {}
    /\ lines' = [g \in DOMAIN arg_groups |-> 0]
    /\ Event("doc_options_start", None)
    /\ UNCHANGED documented

doc_option(arg) ==
    /\ arg \in DOMAIN arg_table
    /\ LET r == DocOption(arg_table, arg_groups, documented, arg)
       IN  /\ documented' = r.documented
           /\ out' = r.out
           /\ err' = r.err
           /\ lines' = Counted(lines, arg, r.out # <<>>, pass = "options")
    /\ fired' = fired \cup {arg}
    /\ Event("doc_option", arg)
    /\ UNCHANGED pass

\* doc_options_end, for an operation without filters.
doc_options_end ==
    /\ out' = <<>>
    /\ err' = "none"
    /\ pass' = "options_done"
    /\ Event("doc_options_end", None)
    /\ UNCHANGED <<documented, fired, lines>>

\* The handler's events, the passes in any order and any number of times:
\* the per-argument events and the end event of a pass fire inside it, for
\* any arguments in any order, and a synopsis pass is closed by its end
\* event before an options pass starts.
OpNext ==
    \/ doc_synopsis_start
    \/ \E arg \in Args : pass = "synopsis" /\ doc_synopsis_option(arg)
    \/ pass = "synopsis" /\ doc_synopsis_end
    \/ pass # "synopsis" /\ doc_options_start
    \/ \E arg \in Args : pass = "options" /\ doc_option(arg)
    \/ pass = "options" /\ doc_options_end

Spec == OpInit /\ [][OpNext]_vars

\* The handler's events in the order of one build: the synopsis pass, then
\* the options pass, each firing its per-argument event once per argument of
\* the table, in any order; an exception ends the build.
BuildNext ==
    \/ lastOp = "init" /\ doc_synopsis_start
    \/ \E arg \in Args :
          /\ pass = "synopsis" /\ err = "none" /\ arg \notin fired
          /\ doc_synopsis_option(arg)
    \/ /\ pass = "synopsis" /\ err = "none" /\ fired = DOMAIN arg_table
       /\ doc_synopsis_end
    \/ pass = "synopsis_done" /\ doc_options_start
    \/ \E arg \in Args :
          /\ pass = "options" /\ arg \notin fired
          /\ doc_option(arg)
    \/ /\ pass = "options" /\ fired = DOMAIN arg_table
       /\ doc_options_end

SpecBuild == OpInit /\ [][BuildNext]_vars

(***************************************************************************)
(* The example synthesizer: _json_example and doc_option_example.          *)
(*                                                                         *)
(* A schema node is a record: its type, its name as a structure member,    *)
(* its enum (has_enum tells whether it has the attribute), the type of its *)
(* keys (a map), and its members: the member node of a list or a map, the  *)
(* member nodes of a structure in declared order.                          *)
(***************************************************************************)
MaxSize == 4        \* most nodes in one schema

Node(t, e, en, k, ms) ==
    [type |-> t, name |-> "", has_enum |-> e, enum |-> en, keys |-> k,
     members |-> ms]

NoNode == Node("none", FALSE, <<>>, "", <<>>)

ScalarNodes ==
    {Node("string", FALSE, <<>>, "", <<>>),
     Node("string", TRUE, <<"x", "y">>, "", <<>>),
     Node("boolean", FALSE, <<>>, "", <<>>),
     Node("integer", FALSE, <<>>, "", <<>>)}

Named(ms) == [i \in 1..Len(ms) |-> [ms[i] EXCEPT !.name = "m" \o ToString(i)]]

\* The schema nodes of exactly n nodes, and the member lists of n nodes.
RECURSIVE NodesOfSize(_), MemberLists(_)
NodesOfSize(n) ==
    IF n <= 0 THEN {}
    ELSE (IF n = 1 THEN ScalarNodes ELSE {})
         \cup {Node("list", FALSE, <<>>, "", <<m>>) : m \in NodesOfSize(n - 1)}
         \cup {Node("map", FALSE, <<>>, "string", <<m>>) : m \in NodesOfSize(n - 1)}
         \cup {Node("structure", FALSE, <<>>, "", Named(ms)) :
                    ms \in MemberLists(n - 1)}
MemberLists(n) ==
    IF n = 0 THEN {<<>>}
    ELSE UNION {{<<m>> \o rest : m \in NodesOfSize(k), rest \in MemberLists(n - k)} :
                    k \in 1..n}

SchemaNodes == UNION {NodesOfSize(n) : n \in 1..MaxSize}

\* The arguments with a schema have its type as their cli type name; a
\* custom argument has no schema and a scalar cli type name.
ExampleArguments ==
    {[param |-> p, cli_type_name |-> p.type, has_example_fn |-> e] :
        p \in SchemaNodes, e \in BOOLEAN}
    \cup {[param |-> NoNode, cli_type_name |-> "string", has_example_fn |-> FALSE]}

\* The statements of the synthesizer, as the steps of its run.
W(text) == [op |-> "write", s |-> text, node |-> NoNode]
Indent == [op |-> "indent", s |-> "", node |-> NoNode]
Dedent == [op |-> "dedent", s |-> "", node |-> NoNode]
NewLine == [op |-> "new_line", s |-> "", node |-> NoNode]
Style(name) == [op |-> "style", s |-> name, node |-> NoNode]
Call(n) == [op |-> "call", s |-> "", node |-> n]

RECURSIVE Flatten(_)
Flatten(ss) == IF ss = <<>> THEN <<>> ELSE Head(ss) \o Flatten(Tail(ss))

Quoted(c) == "\"" \o c \o "\""

\* _json_example_value_name
JsonExampleValueName(param) ==
    IF param.type = "string"
    THEN IF param.has_enum THEN Join("|", [i \in 1..Len(param.enum) |-> Quoted(param.enum[i])])
         ELSE "\"string\""
    ELSE IF param.type = "boolean" THEN "true|false"
    ELSE param.type

\* One iteration of the loop of the structure branch.
JsonExampleMember(param, i) ==
    LET member == param.members[i]
    IN  (IF member.type \in SCALARS
         THEN <<W(Quoted(member.name) \o ": " \o JsonExampleValueName(member))>>
         ELSE IF member.type \in {"structure", "map", "list"}
         THEN <<W(Quoted(member.name) \o ": "), Call(member)>>
         ELSE <<>>)
        \o (IF i < Len(param.members) THEN <<W(","), NewLine>>
            ELSE <<Dedent, NewLine>>)

\* The list branch without its closing bracket.
JsonExampleListOpen(param) ==
    <<W("[")>>
    \o (IF param.members[1].type \in SCALARS
        THEN <<W(JsonExampleValueName(param.members[1]) \o ", ...")>>
        ELSE <<Indent, NewLine, Call(param.members[1]), NewLine, W("..."),
               Dedent, NewLine>>)
JsonExampleList(param) ==
    <<W("[")>>
    \o (IF param.members[1].type \in SCALARS
        THEN <<W(JsonExampleValueName(param.members[1]) \o ", ...")>>
        ELSE <<Indent, NewLine, Call(param.members[1]), NewLine, W("..."),
               Dedent, NewLine>>)
    \o <<W("]")>>

JsonExampleMap(param) ==
    <<W("{"), Indent,
      W(JsonExampleValueName(Node(param.keys, FALSE, <<>>, "", <<>>)) \o ": ")>>
    \o (IF param.members[1].type \in SCALARS
        THEN <<W(JsonExampleValueName(param.members[1]))>>
        ELSE <<Indent, Call(param.members[1]), Dedent>>)
    \o <<NewLine, W("..."), Dedent, W("}")>>

\* The structure branch with its members in reverse order.
JsonExampleStructureReversed(param) ==
    <<W("{"), Indent, NewLine>>
    \o Flatten([i \in 1..Len(param.members) |->
                    JsonExampleMember(
                        [param EXCEPT !.members = Reverse(param.members)], i)])
    \o <<W("}")>>
JsonExampleStructure(param) ==
    <<W("{"), Indent, NewLine>>
    \o Flatten([i \in 1..Len(param.members) |-> JsonExampleMember(param, i)])
    \o <<W("}")>>

\* _json_example: the statements one call runs; a recursive call is a step.
JsonExample(param) ==
    IF param.type = "list" THEN JsonExampleList(param)
    ELSE IF param.type = "map" THEN JsonExampleMap(param)
    ELSE IF param.type = "structure" THEN JsonExampleStructure(param)
    ELSE <<>>

\* The lines of the shorthand example of a param, from its example_fn.
ExampleFn(param) == <<"shorthand">>

\* The Syntax block of a list of scalars.
SyntaxBlock(param) ==
    <<Style("new_paragraph"), W("Syntax"), Style("start_codeblock"),
      W(JsonExampleValueName(param.members[1]) \o " "
        \o JsonExampleValueName(param.members[1]) \o " ..."),
      Style("end_codeblock"), Style("new_paragraph")>>

\* doc_option_example: the statements it runs.
DocOptionExample(arg) ==
    (IF arg.param # NoNode /\ arg.has_example_fn
     THEN <<Style("new_paragraph"), W("Shorthand Syntax"),
            Style("start_codeblock")>>
          \o [i \in 1..Len(ExampleFn(arg.param)) |->
                W(Writeln(ExampleFn(arg.param)[i]))]
          \o <<Style("end_codeblock")>>
     ELSE <<>>)
    \o (IF arg.param # NoNode /\ arg.param.type = "list"
            /\ arg.param.members[1].type \in SCALARS
        THEN SyntaxBlock(arg.param)
        ELSE IF arg.cli_type_name \notin SCALARS
        THEN <<Style("new_paragraph"), W("JSON Syntax"),
               Style("start_codeblock"), Call(arg.param),
               Style("end_codeblock"), Style("new_paragraph")>>
        ELSE <<>>)

JsonInit ==
    /\ DocIdle
    /\ RegIdle
    /\ arg_table = <<>>
    /\ arg_groups = <<>>
    /\ documented = <<>>
    /\ pass = "none"
    /\ fired = {}
    /\ lines = <<>>
    /\ err = "none"
    /\ lastOp = "init"
    /\ lastArg = None
    /\ out = <<>>
    /\ example_arg \in ExampleArguments
    /\ todo = <<>>
    /\ indents = 0
    /\ dedents = 0

jsonIdleVars == <<docIdleVars, arg_table, arg_groups, documented, pass, fired,
                  lines, example_arg, err, lastArg, regVars>>

\* The event fires: doc_option_example starts.
doc_option_example ==
    /\ lastOp = "init"
    /\ lastOp' = "doc_option_example"
    /\ todo' = DocOptionExample(example_arg)
    /\ UNCHANGED <<jsonIdleVars, out, indents, dedents>>

\* _json_example called on the schema of the argument.
json_example ==
    /\ lastOp = "init"
    /\ example_arg.param # NoNode
    /\ lastOp' = "_json_example"
    /\ todo' = <<Call(example_arg.param)>>
    /\ UNCHANGED <<jsonIdleVars, out, indents, dedents>>

Running(kind) ==
    /\ todo # <<>>
    /\ Head(todo).op = kind
    /\ UNCHANGED <<jsonIdleVars, lastOp>>

\* doc.write(s)
StepWrite ==
    /\ Running("write")
    /\ out' = DocWrite(out, keep_data, Head(todo).s)
    /\ todo' = Tail(todo)
    /\ UNCHANGED <<indents, dedents>>

\* doc.style.indent()
StepIndent ==
    /\ Running("indent")
    /\ indents' = indents + 1
    /\ todo' = Tail(todo)
    /\ UNCHANGED <<out, dedents>>

\* doc.style.dedent()
StepDedent ==
    /\ Running("dedent")
    /\ dedents' = dedents + 1
    /\ todo' = Tail(todo)
    /\ UNCHANGED <<out, indents>>

\* doc.style.new_line(): a line break in the document.
StepNewLine ==
    /\ Running("new_line")
    /\ out' = DocWrite(out, keep_data, "\n")
    /\ todo' = Tail(todo)
    /\ UNCHANGED <<indents, dedents>>

\* The other calls of the Style Renderer: markup that out does not record.
StepStyle ==
    /\ Running("style")
    /\ todo' = Tail(todo)
    /\ UNCHANGED <<out, indents, dedents>>

\* self._json_example(doc, node): the call runs the statements of its body.
StepCall ==
    /\ Running("call")
    /\ todo' = JsonExample(Head(todo).node) \o Tail(todo)
    /\ UNCHANGED <<out, indents, dedents>>

JsonNext ==
    \/ doc_option_example
    \/ json_example
    \/ StepWrite
    \/ StepIndent
    \/ StepDedent
    \/ StepNewLine
    \/ StepStyle
    \/ StepCall

SpecJson == JsonInit /\ [][JsonNext]_vars

\* The statements of a handler run one after the other until it returns.
SpecJsonFair == SpecJson /\ WF_vars(JsonNext)

(***************************************************************************)
(* CLIDocumentEventHandler: registration with the session.                 *)
(*                                                                         *)
(* An event family is the sequence of the words of its name: the event is  *)
(* the words joined by "-", the handler method the words joined by "_".    *)
(***************************************************************************)
MaxRegs == 2        \* most register() calls for one event class

\* DOC_EVENTS: family -> the number of %s of its format string.
DOC_EVENTS ==
    [f \in {<<"doc", "breadcrumbs">>, <<"doc", "title">>,
            <<"doc", "description">>, <<"doc", "synopsis", "start">>,
            <<"doc", "synopsis", "end">>, <<"doc", "options", "start">>,
            <<"doc", "options", "end">>, <<"doc", "examples">>,
            <<"doc", "output">>, <<"doc", "subitems", "start">>,
            <<"doc", "subitems", "end">>} |-> 1]
    @@ [f \in {<<"doc", "synopsis", "option">>, <<"doc", "option">>,
               <<"doc", "option", "example">>, <<"doc", "subitem">>} |-> 2]

EventClasses == {"Operation", "Service"}

HandlerClasses == {"Provider", "Service", "Operation"}

\* The doc_ methods each handler class defines.
Methods(cls) ==
    CASE cls = "Provider" ->
            {"doc_title", "doc_description", "doc_synopsis_start",
             "doc_synopsis_end", "doc_options_start", "doc_option",
             "doc_subitems_start", "doc_subitem"}
      [] cls = "Service" ->
            {"doc_title", "doc_description", "doc_subitems_start",
             "doc_subitem"}
      [] OTHER ->
            {"doc_breadcrumbs", "doc_title", "doc_description",
             "doc_synopsis_start", "doc_synopsis_option", "doc_synopsis_end",
             "doc_options_start", "doc_option", "doc_option_example",
             "doc_options_end"}

\* A total order of the families, for iterating DOC_EVENTS.
RECURSIVE SeqOf(_)
SeqOf(S) == IF S = {} THEN <<>>
            ELSE LET x == CHOOSE y \in S : TRUE IN <<x>> \o SeqOf(S \ {x})

RECURSIVE Times(_, _)
Times(str, n) == IF n = 0 THEN "" ELSE str \o Times(str, n - 1)

\* format_string % format_args, for a format of n %s: the class, then stars.
Format(n, cls) == "." \o cls \o Times(".*", n - 1)

\* _map_handlers with the class alone as the id.
MapHandlersClassId(cls, evclass) ==
    LET families == SelectSeq(SeqOf(DOMAIN DOC_EVENTS),
                        LAMBDA f : Join("_", f) \in Methods(cls))
    IN  [i \in 1..Len(families) |->
            [event |-> Join("-", families[i])
                        \o Format(DOC_EVENTS[families[i]], evclass),
             handler |-> Join("_", families[i]),
             id |-> evclass]]
\* _map_handlers: the (event_string, event_handler, unique_id) it passes to
\* mapfn, one for each family of DOC_EVENTS the handler has a method for.
MapHandlers(cls, evclass) ==
    LET families == SelectSeq(SeqOf(DOMAIN DOC_EVENTS),
                        LAMBDA f : Join("_", f) \in Methods(cls))
    IN  [i \in 1..Len(families) |->
            [event |-> Join("-", families[i])
                        \o Format(DOC_EVENTS[families[i]], evclass),
             handler |-> Join("_", families[i]),
             id |-> evclass \o Join("_", families[i])]]

\* session.register: a subscription under an id in use replaces the one
\* that holds the id.
SessionRegister(subs, sub) ==
    IF \E i \in 1..Len(subs) : subs[i].id = sub.id
    THEN [i \in 1..Len(subs) |-> IF subs[i].id = sub.id THEN sub ELSE subs[i]]
    ELSE Append(subs, sub)

\* session.unregister
SessionUnregister(subs, sub) == SelectSeq(subs, LAMBDA x : x.id # sub.id)

RECURSIVE RegisterAll(_, _), UnregisterAll(_, _)
\* _map_handlers with mapfn = session.register: each call in turn.
RegisterAll(subs, calls) ==
    IF calls = <<>> THEN subs
    ELSE RegisterAll(SessionRegister(subs, Head(calls)), Tail(calls))
\* _map_handlers with mapfn = session.unregister: each call in turn.
UnregisterAll(subs, calls) ==
    IF calls = <<>> THEN subs
    ELSE UnregisterAll(SessionUnregister(subs, Head(calls)), Tail(calls))

\* CLIDocumentEventHandler.__init__ registers the handler.
RegInit ==
    /\ DocIdle
    /\ OpIdle
    /\ JsonIdle
    /\ err = "none"
    /\ lastOp = "init"
    /\ lastArg = None
    /\ handler_class \in HandlerClasses
    /\ event_class \in EventClasses
    /\ subscriptions = RegisterAll(<<>>,
                               MapHandlers(handler_class, event_class))
    /\ regCalls = [c \in EventClasses |-> IF c = event_class THEN 1 ELSE 0]
    /\ invoked = 0

regIdleVars == <<docIdleVars, opVars, jsonVars, err, handler_class,
                 event_class>>

register(evclass) ==
    /\ regCalls[evclass] < MaxRegs
    /\ subscriptions' = RegisterAll(subscriptions,
                                MapHandlers(handler_class, evclass))
    /\ regCalls' = [regCalls EXCEPT ![evclass] = @ + 1]
    /\ lastOp' = "register"
    /\ lastArg' = evclass
    /\ invoked' = 0
    /\ UNCHANGED regIdleVars

unregister ==
    /\ subscriptions' = UnregisterAll(subscriptions,
                                MapHandlers(handler_class, event_class))
    /\ regCalls' = [regCalls EXCEPT ![event_class] = 0]
    /\ lastOp' = "unregister"
    /\ lastArg' = None
    /\ invoked' = 0
    /\ UNCHANGED regIdleVars

\* The driver fires an event of a family for an event class: the session
\* calls the handler of every subscription whose event string matches.
fire(family, evclass) ==
    /\ invoked' = Cardinality({i \in 1..Len(subscriptions) :
                        subscriptions[i].event =
                            Join("-", family)
                                \o Format(DOC_EVENTS[family], evclass)})
    /\ lastOp' = "fire"
    /\ lastArg' = <<family, evclass>>
    /\ UNCHANGED <<regIdleVars, subscriptions, regCalls>>

RegNext ==
    \/ \E c \in EventClasses : register(c)
    \/ unregister
    \/ \E f \in DOMAIN DOC_EVENTS, c \in EventClasses : fire(f, c)

SpecReg == RegInit /\ [][RegNext]_vars

(***************************************************************************)
(* Properties of the document buffer.                                      *)
(***************************************************************************)
\* C1: in keep mode, after writing N fragments onto the empty buffer, the
\* pop_write calls return them in reverse order of writing, the buffer
\* holds what is not yet popped and is empty after N pops, and a pop_write
\* or peek_write on the empty buffer raises and leaves it empty.
C1_PopReversesWrites ==
    clean =>
        /\ IsPrefix(plog, Reverse(wlog))
        /\ writes = SubSeq(wlog, 1, Len(wlog) - Len(plog))
        /\ (Len(plog) = Len(wlog) => writes = <<>>)
        /\ (lastOp \in {"pop_write", "peek_write"} /\ prev = <<>>) =>
                (err = "IndexError" /\ writes = <<>> /\ ret = None)
        /\ (lastOp \in {"pop_write", "peek_write"} /\ prev # <<>>) =>
                (err = "none" /\ ret = Last(prev))

\* Three fragments, not all alike, written and popped, and one pop more.
C1_Witness ==
    /\ clean
    /\ Len(wlog) = 3
    /\ wlog[1] # wlog[3]
    /\ plog = Reverse(wlog)
    /\ lastOp = "pop_write"
    /\ err = "IndexError"

\* C5: include_doc_string raises nothing; when the parser raised, the
\* fragments it wrote before raising are in the buffer after the ones that
\* were there; and the write() that follows, in keep mode, appends its
\* fragment.
C5_ParserFailureContained ==
    /\ lastOp = "include_doc_string" => err = "none"
    /\ (lastOp = "include_doc_string" /\ raised) =>
            /\ IsPrefix(prev, writes)
            /\ keep_data =>
                  writes = prev \o SubSeq(lastArg.data, 1, lastArg.failAt)
    /\ (lastOp = "write" /\ afterFail /\ keep_data) =>
            (err = "none" /\ writes = Append(prev, lastArg))

\* The parser raised after writing a fragment, and a write followed.
C5_Witness ==
    /\ lastOp = "write"
    /\ afterFail
    /\ keep_data
    /\ Len(prev) >= 1
    /\ writes = Append(prev, lastArg)

(***************************************************************************)
(* Properties of the argument groups.                                      *)
(***************************************************************************)
GroupOf(arg) == arg_table[arg].group_name

Grouped(arg) == GroupOf(arg) # None

MembersOf(g) == SelectSeq(ArgOrder,
                    LAMBDA n : n \in DOMAIN arg_table /\ GroupOf(n) = g)

Token(g) == Join(" | ", [i \in 1..Len(MembersOf(g)) |-> "--" \o MembersOf(g)[i]])

AnyRequired(g) ==
    \E n \in DOMAIN arg_table : GroupOf(n) = g /\ arg_table[n].required

AllInG == DOMAIN arg_table = Args /\ \A n \in Args : GroupOf(n) = "g"

\* C2: no group gets more than one line in a pass; and with a, b and c all
\* in group g, the synopsis pass has written exactly one synopsis line for
\* g, the token a | b | c, when it ends, and the options pass exactly one
\* option entry for g once doc_option has fired for the three arguments,
\* in whatever order the per-argument events fired.
C2_GroupOncePerPass ==
    /\ \A g \in DOMAIN lines : lines[g] <= 1
    /\ (AllInG /\ lastOp = "doc_synopsis_end") => lines["g"] = 1
    /\ (AllInG /\ pass = "options" /\ fired = Args) => lines["g"] = 1
    /\ (AllInG /\ lastOp = "doc_synopsis_option" /\ out # <<>>) =>
            out \in {<<"--a | --b | --c\n">>, <<"[--a | --b | --c]\n">>}

\* The options pass of a, b, c in g is complete, with a fired last.
C2_Witness ==
    /\ AllInG
    /\ pass = "options"
    /\ fired = Args
    /\ lastOp = "doc_option"
    /\ lastArg = "a"
    /\ lines["g"] = 1

\* C3: the synopsis line of a group is its token in brackets when no member
\* of the group is required, and the bare token when some member is.
C3_BracketIffNoneRequired ==
    (lastOp = "doc_synopsis_option" /\ Grouped(lastArg) /\ out # <<>>) =>
        out = <<IF AnyRequired(GroupOf(lastArg))
                THEN Token(GroupOf(lastArg)) \o "\n"
                ELSE "[" \o Token(GroupOf(lastArg)) \o "]\n">>

\* C7 as stated: the documented groups are empty right after
\* doc_synopsis_start and right after doc_options_start.
C7_ResetAtBothStarts ==
    lastOp \in {"doc_synopsis_start", "doc_options_start"} => documented = <<>>

\* C7, amended: the documented groups are empty right after
\* doc_synopsis_start and right after doc_synopsis_end, and doc_options_start
\* leaves them as they are.
C7_ResetAtSynopsisStartAndEnd ==
    /\ [](lastOp \in {"doc_synopsis_start", "doc_synopsis_end"} =>
            documented = <<>>)
    /\ [][lastOp' = "doc_options_start" => documented' = documented]_vars

\* doc_options_start has run with a group documented before it, which an
\* earlier doc_synopsis_end had cleared.
C7_Witness ==
    /\ lastOp = "doc_options_start"
    /\ documented = <<"g">>

\* C10: doc_synopsis_option raises nothing and writes one line, or no line
\* for an argument of a group.
C10_SynopsisOptionCompletes ==
    lastOp = "doc_synopsis_option" =>
        /\ err = "none"
        /\ Len(out) <= 1
        /\ out = <<>> => Grouped(lastArg)

(***************************************************************************)
(* Properties of the example synthesizer.                                  *)
(***************************************************************************)
JsonDone == lastOp \in {"doc_option_example", "_json_example"} /\ todo = <<>>

Count(fs, S) == Cardinality({i \in 1..Len(fs) : fs[i] \in S})

Opens(fs) == Count(fs, {"{", "["})

Closes(fs) == Count(fs, {"}", "]"})

\* C4: every run of _json_example, alone or inside doc_option_example,
\* comes to its end, and the text it has written then holds as many
\* opening as closing brackets.
C4_TerminatesBalanced ==
    /\ <>JsonDone
    /\ [](JsonDone => Opens(out) = Closes(out))

\* _json_example has run on a list of a structure of two members.
C4_Witness ==
    /\ JsonDone
    /\ lastOp = "_json_example"
    /\ example_arg.param.type = "list"
    /\ example_arg.param.members[1].type = "structure"
    /\ Len(example_arg.param.members[1].members) = 2
    /\ Opens(out) = 2
    /\ Closes(out) = 2

\* C9: when _json_example has returned, doc.style.indent() and
\* doc.style.dedent() have been called the same number of times.
C9_IndentationRestored == JsonDone => indents = dedents

RECURSIVE DepthOne(_, _)
\* The fragments of fs that lie directly inside the outermost brackets.
DepthOne(fs, d) ==
    IF fs = <<>> THEN <<>>
    ELSE IF Head(fs) \in {"{", "["} THEN DepthOne(Tail(fs), d + 1)
    ELSE IF Head(fs) \in {"}", "]"} THEN DepthOne(Tail(fs), d - 1)
    ELSE (IF d = 1 THEN <<Head(fs)>> ELSE <<>>) \o DepthOne(Tail(fs), d)

\* The fragments written after the heading.
After(fs, heading) ==
    LET i == CHOOSE j \in 1..Len(fs) : fs[j] = heading
    IN  SubSeq(fs, i + 1, Len(fs))

ValueText(m) ==
    CASE m.type = "string" /\ m.has_enum -> "\"x\"|\"y\""
      [] m.type = "string" /\ ~m.has_enum -> "\"string\""
      [] m.type = "boolean" -> "true|false"
      [] OTHER -> m.type

MemberLine(m) ==
    IF m.members = <<>> /\ m.type # "structure"
    THEN "\"" \o m.name \o "\": " \o ValueText(m)
    ELSE "\"" \o m.name \o "\": "

\* One line per member, a comma after each but the last.
MemberLines(ms) ==
    <<"\n">> \o Flatten([i \in 1..Len(ms) |->
                    <<MemberLine(ms[i])>>
                    \o (IF i < Len(ms) THEN <<",", "\n">> ELSE <<"\n">>)])

IsScalarList(p) == p.type = "list" /\ p.members[1].members = <<>>
                    /\ p.members[1].type # "structure"

\* C8: when doc_option_example has returned, a list-of-scalars argument has
\* a Syntax block with the line <type> <type> ... and no JSON Syntax block;
\* a structure argument has a JSON Syntax block and no Syntax block, the
\* block holding between balanced braces one line per member, in declared
\* order, with a comma after each but the last; no argument has both.
C8_SyntaxOrJsonSyntax ==
    (lastOp = "doc_option_example" /\ todo = <<>>) =>
        LET p == example_arg.param
        IN  /\ ~(InSeq("Syntax", out) /\ InSeq("JSON Syntax", out))
            /\ IsScalarList(p) =>
                    /\ After(out, "Syntax") =
                          <<ValueText(p.members[1]) \o " "
                              \o ValueText(p.members[1]) \o " ...">>
                    /\ ~InSeq("JSON Syntax", out)
            /\ p.type = "structure" =>
                    /\ InSeq("JSON Syntax", out)
                    /\ LET block == After(out, "JSON Syntax")
                       IN  /\ Head(block) = "{"
                           /\ Last(block) = "}"
                           /\ Opens(block) = Closes(block)
                           /\ Count(block, {"{"}) = Count(block, {"}"})
                           /\ DepthOne(block, 0) = MemberLines(p.members)

\* doc_option_example has documented a structure of a scalar and a list.
C8_Witness ==
    /\ lastOp = "doc_option_example"
    /\ todo = <<>>
    /\ example_arg.param.type = "structure"
    /\ Len(example_arg.param.members) = 2
    /\ example_arg.param.members[1].type = "string"
    /\ example_arg.param.members[2].type = "list"
    /\ InSeq("JSON Syntax", out)

(***************************************************************************)
(* Properties of the registration.                                         *)
(***************************************************************************)
Implements(f) == Join("_", f) \in Methods(handler_class)

SubscriptionsFor(f, c) ==
    {i \in 1..Len(subscriptions) :
        /\ subscriptions[i].handler = Join("_", f)
        /\ subscriptions[i].id = c \o Join("_", f)}

\* C6: however many times the handler is registered for an event class,
\* the session holds exactly one subscription for each family the handler
\* has a method for, and none for the other families, and an event fired
\* for that class calls the method once.
C6_OneSubscriptionPerFamily ==
    /\ \A c \in EventClasses, f \in DOMAIN DOC_EVENTS :
            Cardinality(SubscriptionsFor(f, c)) =
                IF regCalls[c] >= 1 /\ Implements(f) THEN 1 ELSE 0
    /\ Len(subscriptions) =
            Cardinality({f \in DOMAIN DOC_EVENTS : Implements(f)})
                * Cardinality({c \in EventClasses : regCalls[c] >= 1})
    /\ lastOp = "fire" =>
            invoked = IF regCalls[lastArg[2]] >= 1 /\ Implements(lastArg[1])
                      THEN 1 ELSE 0

\* The handler was registered twice for its event class, and doc-option
\* fired for that class called the method once.
C6_Witness ==
    /\ regCalls[event_class] = 2
    /\ lastOp = "fire"
    /\ lastArg = <<<<"doc", "option">>, event_class>>
    /\ invoked = 1

====
